---- MODULE Spec2Model ----
(***************************************************************************)
(* Model of the pixel-art tool of src/src/App.js: the React state of the   *)
(* App component, its handlers (handleImageUpload, the four parameter      *)
(* handlers), generatePixelatedImage with its deferred (image.onload)      *)
(* path, and the canvas pipeline it runs (scaling with and without         *)
(* smoothing, the brightness/contrast/drop-shadow filter, toDataURL).      *)
(*                                                                         *)
(* Brightness and contrast are held in tenths (10 = 1.0), as the range     *)
(* inputs of MainTool.js step by 0.1.  One colour channel is modelled: the *)
(* filter transforms each channel independently with the same function.    *)
(***************************************************************************)
EXTENDS Integers, Sequences, FiniteSets, TLC

VARIABLES
  bitmap,          \* image id -> decoded pixel data of that HTMLImageElement
  complete,        \* image id -> image.complete && image.naturalWidth > 0
  onload,          \* image id -> the image.onload handler set by App, or NoHandler
  uploadedImage,   \* useState(null), App.js:20
  pixelatedImage,  \* useState(null), App.js:21
  pixelSize,       \* useState(10),   App.js:22
  brightness,      \* useState(1),    App.js:23 (tenths)
  contrast,        \* useState(1),    App.js:24 (tenths)
  shadow,          \* useState(0),    App.js:25
  isGenerating,    \* useState(false),App.js:26
  log,             \* what the last handler run wrote to the console
  faults,          \* how many renders have thrown so far
  memo,            \* history: one earlier completed render (parameters, output)
  link,            \* href of the link downloadPixelatedImage clicked last, App.js:181-185
  loadFailed,      \* the images that will fire no load event: their load ended in an error
  rows,            \* the rows of the Supabase table TABLE_NAME, supabaseService.js:4
  nextId,          \* the id the table gives to the next inserted row
  clock,           \* what new Date() gives, supabaseService.js:42
  call,            \* caller -> its saveContent / loadContent call: position, locals, result
  saved,           \* history: slug -> the content string of the last successful saveContent
  concurrent,      \* history: two calls of the service have been in flight together
  failures,        \* how many requests to Supabase have failed so far
  calls,           \* how many calls of the service have been made so far
  globalTitle,     \* let globalTitle, AdminPanelSimple.jsx:249
  globalListeners, \* let globalListeners = new Set(), AdminPanelSimple.jsx:250
  globalUnsubscribe, \* let globalUnsubscribe = null, AdminPanelSimple.jsx:251
  isInitialized,   \* let isInitialized = false, AdminPanelSimple.jsx:252
  listening,       \* the onSnapshot listeners Firestore holds on settings/general
  subscriptions,   \* how many times onSnapshot has been called so far
  isMounted,       \* hook instance -> isMountedRef.current, AdminPanelSimple.jsx:319
  title,           \* hook instance -> useState(globalTitle), AdminPanelSimple.jsx:317
  loading,         \* hook instance -> useState(true), AdminPanelSimple.jsx:318
  notice,          \* what the last step delivered to the hook instances
  saving,          \* component -> useState(false), TitleManagement.jsx:10, MaintenanceModeJSON.jsx:7
  rendered,        \* component -> the value of saving its handler of the last render closes over
  pending,         \* component -> the handler runs that wait for their request
  message,         \* component -> the success or error it shows
  abortControllerRef, \* TitleManagement.jsx:14: the handler run that made the controller
  maintenance,     \* settings.maintenance of SettingsContext.jsx
  invocations,     \* how many times a save or toggle handler has been invoked so far
  invoked          \* the handler the last step invoked, and whether it issued a request

\* the content service of supabaseService.js
contentVars == << rows, nextId, clock, call, saved, concurrent, failures, calls >>

\* the title manager of AdminPanelSimple.jsx:243-385
titleVars == << globalTitle, globalListeners, globalUnsubscribe, isInitialized, listening,
                subscriptions, isMounted, title, loading, notice >>

\* the management components TitleManagement.jsx and MaintenanceModeJSON.jsx
savingVars == << saving, rendered, pending, message, abortControllerRef, maintenance,
                 invocations, invoked >>

\* the admin panel's state beside the content service
adminVars == << titleVars, savingVars >>

\* the variables the handlers of the pixel-art tool leave alone
elsewhere == << link, loadFailed, contentVars, adminVars >>

\* the variables of the pixel-art tool
toolVars == << bitmap, complete, onload, uploadedImage, pixelatedImage, pixelSize,
               brightness, contrast, shadow, isGenerating, log, faults, memo, link,
               loadFailed >>

vars == << bitmap, complete, onload, uploadedImage, pixelatedImage, pixelSize,
           brightness, contrast, shadow, isGenerating, log, faults, memo, elsewhere >>

(***************************************************************************)
(* Bounds of the model.                                                    *)
(***************************************************************************)
MaxW == 5
MaxPixelSize == 4
MaxBoard == 4
MaxFaults == 1
MaxFailures == 2
MaxCalls == 3
MaxSubscriptions == 2
MaxInvocations == 3

(***************************************************************************)
(* Program constants.                                                      *)
(***************************************************************************)
DefaultPixelSize == 10
DefaultBrightness == 10
DefaultContrast == 10
DefaultShadow == 0
SliderMaxPixelSize == 50
ChannelMax == 255
ShadowOpacity == 6

ImageIds == {1, 2}
NoImage == 0
Absent == -1

(***************************************************************************)
(* Pixels and bitmaps.  A pixel is one colour channel v and alpha a, both  *)
(* 0..255; a bitmap holds its pixels row-major in the sequence px, the     *)
(* pixel at column x, row y (both from 0) at index y * w + x + 1.          *)
(***************************************************************************)
Pix(v, a) == [v |-> v, a |-> a]
Transparent == Pix(0, 0)

Bitmap(w, h, f) == [w |-> w, h |-> h, px |-> SubSeq(f, 1, w * h)]
At(bm, x, y) == bm.px[y * bm.w + x + 1]
Cells(bm) == 1 .. (bm.w * bm.h)
XOf(bm, i) == (i - 1) % bm.w
YOf(bm, i) == (i - 1) \div bm.w

Round(n, d) == (2 * n + d) \div (2 * d)
Clamp(n) == IF n < 0 THEN 0 ELSE IF n > ChannelMax THEN ChannelMax ELSE n

RECURSIVE SumFn(_, _)
SumFn(f, k) == IF k < 0 THEN 0 ELSE f[k] + SumFn(f, k - 1)

(***************************************************************************)
(* HTMLImageElement: what drawImage(image, ...) reads, image.width/height  *)
(* (the intrinsic size of an image that is not in the document), and       *)
(* image.src (the data URL MainTool's FileReader produced).                *)
(***************************************************************************)
\* variant: a renderer that works incrementally, drawing from the output it
\* holds when it holds one
DrawnSourceIncremental(image) ==
  IF pixelatedImage.kind = "png"
  THEN Bitmap(pixelatedImage.w, pixelatedImage.h, pixelatedImage.px)
  ELSE bitmap[image]

DrawnSource(image) == bitmap[image]
ImageWidth(bm) == bm.w
ImageHeight(bm) == bm.h
ImageSrc(image) == [kind |-> "src", image |-> image]
NoOutput == [kind |-> "null"]

(***************************************************************************)
(* document.createElement('canvas') sized w x h: a transparent surface.    *)
(* clearRect over the whole surface leaves every pixel transparent.        *)
(***************************************************************************)
CreateCanvas(w, h) == Bitmap(w, h, [i \in 1 .. (w * h) |-> Transparent])
ClearRect(canvas) == Bitmap(canvas.w, canvas.h, [i \in Cells(canvas) |-> Transparent])

(***************************************************************************)
(* source-over compositing of pixel t over pixel u (non-premultiplied).    *)
(***************************************************************************)
Over(t, u) ==
  LET A == t.a * ChannelMax + u.a * (ChannelMax - t.a)
      N == t.v * t.a * ChannelMax + u.v * u.a * (ChannelMax - t.a)
  IN  IF A = 0 THEN Transparent
      ELSE Pix(Round(N, A), Round(A, ChannelMax))

(***************************************************************************)
(* Scaling a bitmap to dw x dh, as drawImage does.                         *)
(* imageSmoothingEnabled = false: nearest neighbour, the destination pixel *)
(* centre mapped back to the source.  Smoothing enabled: at 1:1 the same   *)
(* pixels; when shrinking, the mean of the source pixels a destination     *)
(* pixel covers.                                                           *)
(***************************************************************************)
NearestIndex(d, dn, sn) == ((2 * d + 1) * sn) \div (2 * dn)

Nearest(bm, dw, dh, x, y) ==
  At(bm, NearestIndex(x, dw, bm.w), NearestIndex(y, dh, bm.h))

CoverLo(d, dn, sn) == (d * sn) \div dn
CoverHi(d, dn, sn) ==
  LET e == ((d + 1) * sn + dn - 1) \div dn - 1
  IN  IF e < CoverLo(d, dn, sn) THEN CoverLo(d, dn, sn) ELSE e

BoxMean(bm, dw, dh, x, y) ==
  LET x0 == CoverLo(x, dw, bm.w)
      x1 == CoverHi(x, dw, bm.w)
      y0 == CoverLo(y, dh, bm.h)
      y1 == CoverHi(y, dh, bm.h)
      cw == x1 - x0 + 1
      n  == cw * (y1 - y0 + 1)
      vs == [k \in 0 .. (n - 1) |-> At(bm, x0 + (k % cw), y0 + (k \div cw)).v]
      as == [k \in 0 .. (n - 1) |-> At(bm, x0 + (k % cw), y0 + (k \div cw)).a]
  IN  Pix(Round(SumFn(vs, n - 1), n), Round(SumFn(as, n - 1), n))

Scale(bm, dw, dh, smoothing) ==
  Bitmap(dw, dh,
    [i \in 1 .. (dw * dh) |->
       IF smoothing /\ (dw < bm.w \/ dh < bm.h)
       THEN BoxMean(bm, dw, dh, (i - 1) % dw, (i - 1) \div dw)
       ELSE Nearest(bm, dw, dh, (i - 1) % dw, (i - 1) \div dw)])

(***************************************************************************)
(* The filter string of App.js:77-81, applied in the order written:        *)
(* brightness(b), then contrast(c), then drop-shadow(0 0 r rgba(0,0,0,.6)).*)
(***************************************************************************)
BrightnessOf(v, b) == Clamp(Round(v * b, 10))
ContrastOf(v, c) == Clamp((2 * (c * (2 * v - ChannelMax) + 10 * ChannelMax) + 20) \div 40)

\* variant: the two functions in the other order
ColourFilterContrastFirst(p, b, c) == Pix(BrightnessOf(ContrastOf(p.v, c), b), p.a)

ColourFilter(p, b, c) == Pix(ContrastOf(BrightnessOf(p.v, b), c), p.a)

\* alpha of the layer blurred with radius r at (x, y): the mean over the
\* (2r+1) x (2r+1) window, pixels outside the layer being transparent
BlurAlpha(layer, x, y, r) ==
  LET x0 == IF x - r < 0 THEN 0 ELSE x - r
      x1 == IF x + r > layer.w - 1 THEN layer.w - 1 ELSE x + r
      y0 == IF y - r < 0 THEN 0 ELSE y - r
      y1 == IF y + r > layer.h - 1 THEN layer.h - 1 ELSE y + r
      cw == x1 - x0 + 1
      n  == cw * (y1 - y0 + 1)
      as == [k \in 0 .. (n - 1) |-> At(layer, x0 + (k % cw), y0 + (k \div cw)).a]
  IN  Round(SumFn(as, n - 1), (2 * r + 1) * (2 * r + 1))

\* the shadow is black at 60% of the blurred alpha, drawn beneath the layer
DropShadow(layer, r) ==
  Bitmap(layer.w, layer.h,
    [i \in Cells(layer) |->
       Over(layer.px[i],
            Pix(0, Round(ShadowOpacity * BlurAlpha(layer, XOf(layer, i), YOf(layer, i), r), 10)))])

ApplyFilter(layer, b, c, r) ==
  DropShadow(Bitmap(layer.w, layer.h, [i \in Cells(layer) |-> ColourFilter(layer.px[i], b, c)]), r)

\* ctx.drawImage(src, ..., 0, 0, canvas.width, canvas.height) under ctx.filter:
\* scale, filter, composite over what the canvas holds
DrawFiltered(canvas, src, smoothing, b, c, r) ==
  LET layer == ApplyFilter(Scale(src, canvas.w, canvas.h, smoothing), b, c, r)
  IN  Bitmap(canvas.w, canvas.h, [i \in Cells(canvas) |-> Over(layer.px[i], canvas.px[i])])

\* variant: the temp context given the filter of the component's state
DrawPlainFiltered(canvas, src, smoothing) ==
  DrawFiltered(canvas, src, smoothing, brightness, contrast, shadow)

\* tempCtx.drawImage(image, 0, 0, w, h): no filter is set on the temp context
DrawPlain(canvas, src, smoothing) ==
  LET layer == Scale(src, canvas.w, canvas.h, smoothing)
  IN  Bitmap(canvas.w, canvas.h, [i \in Cells(canvas) |-> Over(layer.px[i], canvas.px[i])])

\* canvas.toDataURL('image/png'): a lossless encoding of the surface
ToDataURL(canvas) == [kind |-> "png", w |-> canvas.w, h |-> canvas.h, px |-> canvas.px]

(***************************************************************************)
(* generatePixelatedImage, App.js:33-126.                                  *)
(***************************************************************************)
Params(ps, b, c, s) == [pixelSize |-> ps, brightness |-> b, contrast |-> c, shadow |-> s]
NoOverrides == Params(Absent, Absent, Absent, Absent)
CurrentParams == Params(pixelSize, brightness, contrast, shadow)

\* the destructuring with defaults of App.js:38-43: a field of overrides when
\* present, the value the closure captured otherwise
Resolve(ov, scope) ==
  Params(IF ov.pixelSize # Absent THEN ov.pixelSize ELSE scope.pixelSize,
         IF ov.brightness # Absent THEN ov.brightness ELSE scope.brightness,
         IF ov.contrast # Absent THEN ov.contrast ELSE scope.contrast,
         IF ov.shadow # Absent THEN ov.shadow ELSE scope.shadow)

\* variant: a renderer that reads brightness from the component's state and not
\* from the parameters of the call
FilterArgsFromState(p) == [b |-> brightness, c |-> p.contrast, r |-> p.shadow]

\* the values interpolated into the filter string, App.js:77-81
FilterArgs(p) == [b |-> p.brightness, c |-> p.contrast, r |-> p.shadow]

\* variant: a canvas sized by the image's height in both directions
CanvasWidthSwapped(bm) == ImageHeight(bm)

CanvasWidth(bm) == ImageWidth(bm)
CanvasHeight(bm) == ImageHeight(bm)

\* variant: a reduced surface that is not reduced
ReducedDimNone(n, ps) == n

\* variant: Math.floor in the place of Math.ceil, kept to 1 at least
ReducedDimFloor(n, ps) == IF n \div ps = 0 THEN 1 ELSE n \div ps

\* Math.ceil(canvas.width / pixelSizeValue), App.js:94-95
ReducedDim(n, ps) == (n + ps - 1) \div ps

\* what console.log('Pixelation dimensions:', w, 'x', h) prints (App.js:97): the
\* size of the temporary canvas; on the pass-through branch none is created
NoReduced == [w |-> 0, h |-> 0]
ReducedSize(src, p) ==
  IF p.pixelSize <= 0 THEN NoReduced
  ELSE [w |-> ReducedDim(CanvasWidth(src), p.pixelSize),
        h |-> ReducedDim(CanvasHeight(src), p.pixelSize)]

\* variant: the temp context left with smoothing enabled
TempSmoothingOn == TRUE

\* ctx.imageSmoothingEnabled = false (App.js:91), tempCtx likewise (App.js:106);
\* the context of the pass-through branch keeps the default, true
CtxSmoothing == FALSE
TempSmoothing == FALSE
DefaultSmoothing == TRUE

\* the try block, App.js:65-118, on the pixels src of the image: the surface
\* handed to toDataURL
RenderBitmap(src, p) ==
  LET f      == FilterArgs(p)
      canvas == ClearRect(CreateCanvas(CanvasWidth(src), CanvasHeight(src)))
  IN  IF p.pixelSize <= 0
      THEN DrawFiltered(canvas, src, DefaultSmoothing, f.b, f.c, f.r)
      ELSE LET w    == ReducedDim(canvas.w, p.pixelSize)
               h    == ReducedDim(canvas.h, p.pixelSize)
               temp == DrawPlain(CreateCanvas(w, h), src, TempSmoothing)
           IN  DrawFiltered(canvas, temp, CtxSmoothing, f.b, f.c, f.r)

RenderCanvas(image, p) == RenderBitmap(DrawnSource(image), p)

NoHandler == [set |-> FALSE, overrides |-> NoOverrides, scope |-> NoOverrides]
Handler(ov, scope) == [set |-> TRUE, overrides |-> ov, scope |-> scope]

\* console output of one handler run: the call that was made and how it ended.
\* `thrown` tells whether the call ended by throwing to its caller: it never
\* does, the catch block of App.js:122-125 logs the error and returns.
NoLog == [kind |-> "none", image |-> NoImage, params |-> NoOverrides, thrown |-> FALSE,
          reduced |-> NoReduced]
Logged(kind, image, p) == [kind |-> kind, image |-> image, params |-> p, thrown |-> FALSE,
                           reduced |-> NoReduced]

\* One call generatePixelatedImage(image, ov) made by a closure that captured
\* `scope`; `decoded` is image.complete && naturalWidth # 0 at the call, `shown`
\* and `generating` the values the state setters hold so far in this handler,
\* `handlers` the onload handlers.  The result is what the call leaves behind.
GeneratePixelatedImage(image, ov, scope, decoded, throws, shown, generating, handlers) ==
  LET p == Resolve(ov, scope)
  IN  IF image = NoImage
      THEN [pixelatedImage |-> shown, isGenerating |-> generating,
            onload |-> handlers, log |-> NoLog]
      ELSE IF ~decoded
      THEN [pixelatedImage |-> shown, isGenerating |-> TRUE,
            onload |-> [handlers EXCEPT ![image] = Handler(ov, scope)],
            log |-> Logged("deferred", image, p)]
      ELSE IF throws
      THEN [pixelatedImage |-> shown, isGenerating |-> FALSE,
            onload |-> handlers, log |-> Logged("threw", image, p)]
      ELSE [pixelatedImage |-> ToDataURL(RenderCanvas(image, p)), isGenerating |-> FALSE,
            onload |-> handlers,
            log |-> [Logged("rendered", image, p) EXCEPT
                       !.reduced = ReducedSize(DrawnSource(image), p)]]

\* a render throws only when the browser cannot provide the surfaces; the model
\* lets that happen to at most MaxFaults renders of a behaviour
\* a catch block that also drops the output it could not replace
CommitClearingOutput(r) ==
  /\ pixelatedImage' = IF r.log.kind = "threw" THEN NoOutput ELSE r.pixelatedImage
  /\ isGenerating' = r.isGenerating
  /\ onload' = r.onload
  /\ log' = r.log
  /\ IF r.log.kind = "threw"
     THEN faults < MaxFaults /\ faults' = faults + 1
     ELSE faults' = faults

Commit(r) ==
  /\ pixelatedImage' = r.pixelatedImage
  /\ isGenerating' = r.isGenerating
  /\ onload' = r.onload
  /\ log' = r.log
  /\ IF r.log.kind = "threw"
     THEN faults < MaxFaults /\ faults' = faults + 1
     ELSE faults' = faults

\* the effect of App.js:129-134 runs generatePixelatedImage only when an image
\* is uploaded and no output is held
EffectRegenerates == uploadedImage # NoImage /\ pixelatedImage = NoOutput

(***************************************************************************)
(* Handlers of App.  React re-renders at the end of each event, so the     *)
(* closure a handler runs in holds the state as the previous handler left  *)
(* it (CurrentParams, uploadedImage).                                      *)
(***************************************************************************)
\* App.js:136-148
HandleImageUpload(image, throws) ==
  /\ uploadedImage' = image
  /\ Commit(GeneratePixelatedImage(image, NoOverrides, CurrentParams, complete[image],
                                   throws, ImageSrc(image), isGenerating, onload))
  /\ UNCHANGED << bitmap, complete, pixelSize, brightness, contrast, shadow >>

\* the body shared by the four handlers of App.js:150-176:
\* if (uploadedImage) generatePixelatedImage(uploadedImage, { ... })
Regenerate(ov, throws) ==
  IF uploadedImage # NoImage
  THEN Commit(GeneratePixelatedImage(uploadedImage, ov, CurrentParams,
                                     complete[uploadedImage], throws,
                                     pixelatedImage, isGenerating, onload))
  ELSE /\ log' = NoLog
       /\ UNCHANGED << pixelatedImage, isGenerating, onload, faults >>

\* App.js:150-155
HandlePixelSizeChange(newSize, throws) ==
  /\ pixelSize' = newSize
  /\ Regenerate(Params(newSize, Absent, Absent, Absent), throws)
  /\ UNCHANGED << bitmap, complete, uploadedImage, brightness, contrast, shadow >>

\* App.js:157-162
HandleBrightnessChange(newBrightness, throws) ==
  /\ brightness' = newBrightness
  /\ Regenerate(Params(Absent, newBrightness, Absent, Absent), throws)
  /\ UNCHANGED << bitmap, complete, uploadedImage, pixelSize, contrast, shadow >>

\* App.js:164-169
HandleContrastChange(newContrast, throws) ==
  /\ contrast' = newContrast
  /\ Regenerate(Params(Absent, Absent, newContrast, Absent), throws)
  /\ UNCHANGED << bitmap, complete, uploadedImage, pixelSize, brightness, shadow >>

\* App.js:171-176
HandleShadowChange(newShadow, throws) ==
  /\ shadow' = newShadow
  /\ Regenerate(Params(Absent, Absent, Absent, newShadow), throws)
  /\ UNCHANGED << bitmap, complete, uploadedImage, pixelSize, brightness, contrast >>

\* The browser finishes decoding an image: it becomes complete and its onload
\* handler, if App set one (App.js:58-61), runs once: it clears itself and
\* calls generatePixelatedImage(image, overrides) of the closure that set it.
ImageDecoded(image, throws) ==
  /\ ~complete[image]
  /\ image \notin loadFailed
  /\ complete' = [complete EXCEPT ![image] = TRUE]
  /\ IF onload[image].set
     THEN Commit(GeneratePixelatedImage(image, onload[image].overrides, onload[image].scope,
                                        TRUE, throws, pixelatedImage, isGenerating,
                                        [onload EXCEPT ![image] = NoHandler]))
     ELSE /\ log' = NoLog
          /\ UNCHANGED << pixelatedImage, isGenerating, onload, faults >>
  /\ UNCHANGED << bitmap, uploadedImage, pixelSize, brightness, contrast, shadow >>

\* The load of an image ends in an error: the browser fires the error event
\* and never the load event.  App sets image.onload only (App.js:58-61), so
\* nothing of App runs.
ImageFailed(image) ==
  /\ ~complete[image]
  /\ image \notin loadFailed
  /\ loadFailed' = loadFailed \cup {image}
  /\ log' = NoLog
  /\ UNCHANGED << bitmap, complete, onload, uploadedImage, pixelatedImage, pixelSize,
                  brightness, contrast, shadow, isGenerating, faults >>

(***************************************************************************)
(* The content service, supabaseService.js.  The table TABLE_NAME holds    *)
(* rows [id, slug, content, updated_at]; slug is not unique in it          *)
(* (supabaseService.js:12-16).  Every `await supabase...` is one request,  *)
(* which the database serves atomically and which succeeds, comes back     *)
(* with an error, or rejects; the code between two awaits runs with the    *)
(* request before it.                                                      *)
(***************************************************************************)
Callers == {1, 2}
Slugs == {"website_title", "footer_links", "maintenance_mode"}
Outcomes == {"ok", "error", "threw"}

\* values handed to saveContent and returned by loadContent
Text(s) == [t |-> "string", v |-> s]
Object(n) == [t |-> "object", v |-> n]
Null == [t |-> "null", v |-> ""]
ObjectNames == {"links", "enabled:true", "enabled:false"}

\* JSON.stringify of the object named n; JSON.parse of a string, which throws
\* on a string that is no JSON text
JsonText(n) == "{" \o n \o "}"
IsJson(s) == \E n \in ObjectNames : JsonText(n) = s
JsonParse(s) == Object(CHOOSE n \in ObjectNames : JsonText(n) = s)

\* typeof content === 'object' ? JSON.stringify(content) : content,
\* supabaseService.js:19 and 143-145
ContentString(content) == IF content.t = "object" THEN JsonText(content.v) ELSE content.v

\* defaultContent = "", supabaseService.js:85
DefaultContent == Text("")

Row(id, slug, content, at) == [id |-> id, slug |-> slug, content |-> content, updated_at |-> at]
RowsOf(slug) == {r \in rows : r.slug = slug}

\* .eq("slug", slug).order('updated_at', { ascending: false }): the rows of the
\* slug, most recent first; rows of equal updated_at come in any order
Descending(S) ==
  {s \in [1 .. Cardinality(S) -> S] :
     \A i, j \in 1 .. Cardinality(S) :
       i < j => (s[i] # s[j] /\ s[i].updated_at >= s[j].updated_at)}

NoSaved == [set |-> FALSE, content |-> ""]
NoResult == [success |-> FALSE, action |-> "", value |-> Null]
\* a caller's call: `existing` is existingRows as ids; `newest` is history, the
\* ids of the rows that were the most recent of the slug when saveContent asked;
\* `queried` is history, loadContent's query was answered without an error
Idle == [pc |-> "idle", fn |-> "", slug |-> "", content |-> "", parse |-> FALSE,
         existing |-> << >>, newest |-> {}, queried |-> FALSE, result |-> NoResult]
Newest(S) == {r.id : r \in {q \in S : \A o \in S : q.updated_at >= o.updated_at}}

InFlight(p) == call[p].pc \notin {"idle", "done"}

\* a request that does not succeed; the model lets at most MaxFailures fail,
\* and at most MaxCalls calls be made
Request(outcome) ==
  IF outcome = "ok" THEN failures' = failures
  ELSE failures < MaxFailures /\ failures' = failures + 1

\* new Date() at a write: time has passed since the write before it, or not
Tick == clock' \in {clock, clock + 1}

Return(p, result) == [call[p] EXCEPT !.pc = "done", !.result = result]
Failure == [success |-> FALSE, action |-> "", value |-> Null]
Success(action) == [success |-> TRUE, action |-> action, value |-> Null]

\* saveContent up to the answer to its first request, supabaseService.js:17-35
SaveContent(p, slug, content, outcome) ==
  /\ ~InFlight(p)
  /\ Request(outcome)
  /\ LET c == [Idle EXCEPT !.fn = "saveContent", !.slug = slug,
                           !.content = ContentString(content),
                           !.newest = Newest(RowsOf(slug))]
     IN  IF outcome # "ok"
         THEN call' = [call EXCEPT ![p] = [c EXCEPT !.pc = "done", !.result = Failure]]
         ELSE \E s \in Descending(RowsOf(slug)) :
                call' = [call EXCEPT ![p] =
                           [c EXCEPT !.pc = IF RowsOf(slug) = {} THEN "save_insert"
                                            ELSE "save_update",
                                     !.existing = [i \in 1 .. Cardinality(RowsOf(slug)) |-> s[i].id]]]
  /\ concurrent' = (concurrent \/ \E q \in Callers \ {p} : InFlight(q))
  /\ calls < MaxCalls /\ calls' = calls + 1
  /\ UNCHANGED << rows, nextId, clock, saved >>

\* the INSERT branch, supabaseService.js:36-47
SaveInsert(p, outcome) ==
  /\ call[p].pc = "save_insert"
  /\ Request(outcome)
  /\ IF outcome = "ok"
     THEN /\ rows' = rows \cup {Row(nextId, call[p].slug, call[p].content, clock)}
          /\ nextId' = nextId + 1
          /\ Tick
          /\ call' = [call EXCEPT ![p] = Return(p, Success("inserted"))]
          /\ saved' = [saved EXCEPT ![call[p].slug] = [set |-> TRUE, content |-> call[p].content]]
     ELSE /\ call' = [call EXCEPT ![p] = Return(p, Failure)]
          /\ UNCHANGED << rows, nextId, clock, saved >>
  /\ UNCHANGED << concurrent, calls >>

\* the UPDATE of the most recent row, supabaseService.js:50-66
SaveUpdate(p, outcome) ==
  /\ call[p].pc = "save_update"
  /\ Request(outcome)
  /\ IF outcome = "ok"
     THEN /\ rows' = {IF r.id = call[p].existing[1]
                      THEN [r EXCEPT !.content = call[p].content, !.updated_at = clock]
                      ELSE r : r \in rows}
          /\ Tick
          /\ IF Len(call[p].existing) > 1
             THEN /\ call' = [call EXCEPT ![p].pc = "save_cleanup"]
                  /\ UNCHANGED saved
             ELSE /\ call' = [call EXCEPT ![p] = Return(p, Success("updated"))]
                  /\ saved' = [saved EXCEPT ![call[p].slug] =
                                 [set |-> TRUE, content |-> call[p].content]]
     ELSE /\ call' = [call EXCEPT ![p] = Return(p, Failure)]
          /\ UNCHANGED << rows, clock, saved >>
  /\ UNCHANGED << nextId, concurrent, calls >>

\* the CLEANUP, supabaseService.js:66-72: the answer to the delete is not
\* looked at; a rejected request ends in the catch block
SaveCleanup(p, outcome) ==
  /\ call[p].pc = "save_cleanup"
  /\ Request(outcome)
  /\ rows' = IF outcome = "ok"
             THEN {r \in rows : \A i \in 2 .. Len(call[p].existing) : r.id # call[p].existing[i]}
             ELSE rows
  /\ IF outcome = "threw"
     THEN /\ call' = [call EXCEPT ![p] = Return(p, Failure)]
          /\ UNCHANGED saved
     ELSE /\ call' = [call EXCEPT ![p] = Return(p, Success("updated"))]
          /\ saved' = [saved EXCEPT ![call[p].slug] = [set |-> TRUE, content |-> call[p].content]]
  /\ UNCHANGED << nextId, clock, concurrent, calls >>

\* what loadContent returns for a row's content, supabaseService.js:109-120
Decode(content, parse) ==
  LET c == IF content # "" THEN Text(content) ELSE IF parse THEN Null ELSE Text("")
  IN  IF parse /\ c.t = "string"
      THEN IF IsJson(c.v) THEN JsonParse(c.v)
           ELSE IF DefaultContent.t = "object" THEN DefaultContent ELSE Null
      ELSE c

\* what loadContent returns when it found no row, supabaseService.js:106
DefaultValue(parse) ==
  IF parse THEN (IF DefaultContent.t = "object" THEN DefaultContent ELSE Null)
  ELSE DefaultContent

Loaded(v) == [NoResult EXCEPT !.value = v]

\* loadContent up to the answer to its query, supabaseService.js:85-125
LoadContent(p, slug, parse, outcome) ==
  /\ ~InFlight(p)
  /\ Request(outcome)
  /\ LET c == [Idle EXCEPT !.fn = "loadContent", !.slug = slug, !.parse = parse]
     IN  CASE outcome = "threw" ->
                call' = [call EXCEPT ![p] =
                           [c EXCEPT !.pc = "done",
                                     !.result = Loaded(IF parse THEN Null ELSE Text(""))]]
           [] outcome = "error" \/ (outcome = "ok" /\ RowsOf(slug) = {}) ->
                call' = [call EXCEPT ![p] = [c EXCEPT !.pc = "default_count",
                                                      !.queried = (outcome = "ok")]]
           [] OTHER ->
                \E s \in Descending(RowsOf(slug)) :
                  call' = [call EXCEPT ![p] =
                             [c EXCEPT !.pc = "done", !.queried = TRUE,
                                       !.result = Loaded(Decode(s[1].content, parse))]]
  /\ concurrent' = (concurrent \/ \E q \in Callers \ {p} : InFlight(q))
  /\ calls < MaxCalls /\ calls' = calls + 1
  /\ UNCHANGED << rows, nextId, clock, saved >>

\* createDefaultRow up to the answer to its count, supabaseService.js:130-141;
\* without an answer count is undefined and `count > 0` is false
CreateDefaultRow(p, outcome) ==
  /\ call[p].pc = "default_count"
  /\ Request(outcome)
  /\ IF outcome = "threw" \/ (outcome = "ok" /\ RowsOf(call[p].slug) # {})
     THEN call' = [call EXCEPT ![p] = Return(p, Loaded(DefaultValue(call[p].parse)))]
     ELSE call' = [call EXCEPT ![p].pc = "default_insert"]
  /\ UNCHANGED << rows, nextId, clock, saved, concurrent, calls >>

\* the insert of createDefaultRow, supabaseService.js:143-166, and the return
\* of loadContent, supabaseService.js:106
DefaultInsert(p, outcome) ==
  /\ call[p].pc = "default_insert"
  /\ Request(outcome)
  /\ IF outcome = "ok"
     THEN /\ rows' = rows \cup {Row(nextId, call[p].slug, ContentString(DefaultContent), clock)}
          /\ nextId' = nextId + 1
          /\ Tick
     ELSE UNCHANGED << rows, nextId, clock >>
  /\ call' = [call EXCEPT ![p] = Return(p, Loaded(DefaultValue(call[p].parse)))]
  /\ UNCHANGED << saved, concurrent, calls >>

\* no call of the service is in flight and the table is empty
ContentIdle ==
  /\ rows = {}
  /\ nextId = 1
  /\ clock = 0
  /\ call = [p \in Callers |-> Idle]
  /\ saved = [slug \in Slugs |-> NoSaved]
  /\ concurrent = FALSE
  /\ failures = 0
  /\ calls = 0

(***************************************************************************)
(* The title manager, AdminPanelSimple.jsx:243-385: module-level state     *)
(* shared by every component that calls useTitleManager, one Firestore     *)
(* onSnapshot listener that notifies the callbacks in globalListeners, and *)
(* cleanupTitleManager.  A hook instance stands for one mounted component  *)
(* (HeaderSimple, FooterSimple) and its updateTitle callback.              *)
(***************************************************************************)
Instances == {1, 2}
DefaultTitle == "PixelArt Converter"
Titles == {DefaultTitle, "Pixel Studio"}

\* globalUnsubscribe = null
NoListener == 0

\* the snapshots of settings/general: no document, a document without a
\* title, a document with a title
Documents ==
  {[exists |-> FALSE, website_title |-> ""], [exists |-> TRUE, website_title |-> ""],
   [exists |-> TRUE, website_title |-> "Pixel Studio"]}

\* AdminPanelSimple.jsx:263-268
SnapshotTitle(snapshot) ==
  IF snapshot.exists /\ snapshot.website_title # "" THEN snapshot.website_title ELSE DefaultTitle

SetupOutcomes == {"ok", "threw", "aborted"}

NoNotice == [kind |-> "none", title |-> ""]

\* AdminPanelSimple.jsx:255-314.  onSnapshot returns the unsubscribe function
\* of a new listener, throws, or throws an AbortError.
InitializeGlobalListener(outcome) ==
  IF isInitialized \/ globalUnsubscribe # NoListener
  THEN UNCHANGED << globalTitle, globalUnsubscribe, isInitialized, listening, subscriptions >>
  ELSE CASE outcome = "ok" ->
              /\ subscriptions < MaxSubscriptions
              /\ subscriptions' = subscriptions + 1
              /\ listening' = listening \cup {subscriptions'}
              /\ globalUnsubscribe' = subscriptions'
              /\ isInitialized' = TRUE
              /\ UNCHANGED globalTitle
         [] outcome = "aborted" ->
              UNCHANGED << globalTitle, globalUnsubscribe, isInitialized, listening,
                           subscriptions >>
         [] outcome = "threw" ->
              /\ globalTitle' = DefaultTitle
              /\ isInitialized' = TRUE
              /\ UNCHANGED << globalUnsubscribe, listening, subscriptions >>

\* globalListeners.forEach(callback => callback(newTitle)), with updateTitle
\* of AdminPanelSimple.jsx:329-333 as the callback
Notify(newTitle) ==
  /\ title' = [i \in Instances |->
                 IF i \in globalListeners /\ isMounted[i] THEN newTitle ELSE title[i]]
  /\ loading' = [i \in Instances |->
                   IF i \in globalListeners /\ isMounted[i] THEN FALSE ELSE loading[i]]

\* A component that calls useTitleManager mounts: the effect of
\* AdminPanelSimple.jsx:322-356 runs.
Mount(i, outcome) ==
  /\ ~isMounted[i]
  /\ isMounted' = [isMounted EXCEPT ![i] = TRUE]
  /\ InitializeGlobalListener(outcome)
  /\ globalListeners' = globalListeners \cup {i}
  /\ title' = [title EXCEPT ![i] = globalTitle']
  /\ loading' = [loading EXCEPT ![i] = FALSE]
  /\ notice' = NoNotice

\* The component unmounts: the effect's cleanup, AdminPanelSimple.jsx:358-365.
Unmount(i) ==
  /\ isMounted[i]
  /\ isMounted' = [isMounted EXCEPT ![i] = FALSE]
  /\ globalListeners' = globalListeners \ {i}
  /\ notice' = NoNotice
  /\ UNCHANGED << globalTitle, globalUnsubscribe, isInitialized, listening, subscriptions,
                  title, loading >>

\* AdminPanelSimple.jsx:370-385; globalUnsubscribe() detaches the listener.
CleanupTitleManager ==
  /\ globalListeners' = {}
  /\ listening' = listening \ {globalUnsubscribe}
  /\ globalUnsubscribe' = NoListener
  /\ isInitialized' = FALSE
  /\ notice' = NoNotice
  /\ UNCHANGED << globalTitle, subscriptions, isMounted, title, loading >>

\* Firestore delivers a snapshot to a listener: the callback of
\* AdminPanelSimple.jsx:262-280.
Snapshot(l, snapshot) ==
  /\ l \in listening
  /\ globalTitle' = SnapshotTitle(snapshot)
  /\ Notify(globalTitle')
  /\ notice' = [kind |-> "snapshot", title |-> globalTitle']
  /\ UNCHANGED << globalListeners, globalUnsubscribe, isInitialized, listening,
                  subscriptions, isMounted >>

\* Firestore reports an error to a listener, which ends the listener: the
\* callback of AdminPanelSimple.jsx:281-301.
SnapshotError(l, aborted) ==
  /\ l \in listening
  /\ listening' = listening \ {l}
  /\ IF aborted
     THEN /\ notice' = NoNotice
          /\ UNCHANGED << globalTitle, title, loading >>
     ELSE /\ globalTitle' = DefaultTitle
          /\ Notify(DefaultTitle)
          /\ notice' = [kind |-> "error", title |-> DefaultTitle]
  /\ UNCHANGED << globalListeners, globalUnsubscribe, isInitialized, subscriptions, isMounted >>

\* The window event websiteTitleChanged reaches handleTitleChange of every
\* mounted instance, AdminPanelSimple.jsx:344-356.
HandleTitleChange(websiteTitle) ==
  /\ \E i \in Instances : isMounted[i]
  /\ IF websiteTitle # ""
     THEN /\ title' = [i \in Instances |-> IF isMounted[i] THEN websiteTitle ELSE title[i]]
          /\ globalTitle' = websiteTitle
     ELSE UNCHANGED << title, globalTitle >>
  /\ notice' = [kind |-> "event", title |-> websiteTitle]
  /\ UNCHANGED << globalListeners, globalUnsubscribe, isInitialized, listening,
                  subscriptions, isMounted, loading >>

\* no component has mounted yet
TitleIdle ==
  /\ globalTitle = DefaultTitle
  /\ globalListeners = {}
  /\ globalUnsubscribe = NoListener
  /\ isInitialized = FALSE
  /\ listening = {}
  /\ subscriptions = 0
  /\ isMounted = [i \in Instances |-> FALSE]
  /\ title = [i \in Instances |-> DefaultTitle]
  /\ loading = [i \in Instances |-> TRUE]
  /\ notice = NoNotice

(***************************************************************************)
(* The management components of the admin panel: TitleManagement.jsx       *)
(* (handleSave writes the title with updateDoc) and MaintenanceModeJSON.jsx *)
(* (handleToggleMaintenance calls updateMaintenanceMode of                 *)
(* SettingsContext.jsx:122-145, which calls saveContent).  A handler is    *)
(* the closure of the component's last render; React renders the state     *)
(* set inside an event handler before the next event, and the state set    *)
(* after an await at some later moment.                                    *)
(***************************************************************************)
Components == {"TitleManagement", "MaintenanceModeJSON"}
SaveOutcomes == {"ok", "failed", "aborted"}

NoInvocation == [component |-> "none", issued |-> FALSE]
Invocation(c, issued) == [component |-> c, issued |-> issued]

\* a handler run waiting for its request: n numbers the run, caller is the
\* caller of the content service it occupies (0: none), title and enabled are
\* the values its closure holds
NoCaller == 0
Run(n, caller, websiteTitle, enabled) ==
  [n |-> n, caller |-> caller, title |-> websiteTitle, enabled |-> enabled]

\* { enabled: Boolean(maintenance) }, SettingsContext.jsx:124-126
MaintenanceObject(enabled) == Object(IF enabled THEN "enabled:true" ELSE "enabled:false")

\* if (saving) return, TitleManagement.jsx:90 and MaintenanceModeJSON.jsx:11
BusyNever(c) == FALSE
Busy(c) == rendered[c]

\* the handler returns at once
Refuse(c) ==
  /\ invoked' = Invocation(c, FALSE)
  /\ UNCHANGED << saving, rendered, pending, message, abortControllerRef, maintenance >>

\* setSaving(true) and the messages cleared, rendered when the event ends
Begin(c, run) ==
  /\ saving' = [saving EXCEPT ![c] = TRUE]
  /\ rendered' = [rendered EXCEPT ![c] = TRUE]
  /\ message' = [message EXCEPT ![c] = "none"]
  /\ pending' = [pending EXCEPT ![c] = @ \cup {run}]
  /\ invoked' = Invocation(c, TRUE)

\* finally { setSaving(false) }, TitleManagement.jsx:135-137 and
\* MaintenanceModeJSON.jsx:45-47
Finally(c, run, shown) ==
  /\ saving' = [saving EXCEPT ![c] = FALSE]
  /\ pending' = [pending EXCEPT ![c] = @ \ {run}]
  /\ message' = [message EXCEPT ![c] = shown]
  /\ invoked' = NoInvocation
  /\ UNCHANGED << rendered, abortControllerRef, invocations >>

\* TitleManagement.jsx:88-105: handleSave up to await updateDoc(...).  The
\* controller it aborts and the one it makes are attached to no request.
HandleSave(websiteTitle) ==
  /\ invocations < MaxInvocations
  /\ invocations' = invocations + 1
  /\ IF Busy("TitleManagement")
     THEN Refuse("TitleManagement")
     ELSE /\ Begin("TitleManagement", Run(invocations', NoCaller, websiteTitle, FALSE))
          /\ abortControllerRef' = invocations'
          /\ UNCHANGED maintenance

\* TitleManagement.jsx:107-137: updateDoc resolves, rejects, or rejects with
\* an AbortError; on success the event websiteTitleChanged is dispatched.
SaveSettled(run, outcome) ==
  /\ run \in pending["TitleManagement"]
  /\ IF outcome = "ok" /\ \E i \in Instances : isMounted[i]
     THEN HandleTitleChange(run.title)
     ELSE UNCHANGED titleVars
  /\ Finally("TitleManagement", run,
             CASE outcome = "ok" -> "success"
               [] outcome = "failed" -> "error"
               [] outcome = "aborted" -> message["TitleManagement"])
  /\ UNCHANGED maintenance

\* MaintenanceModeJSON.jsx:10-17 with SettingsContext.jsx:122-126:
\* handleToggleMaintenance up to the answer to saveContent's first request
HandleToggleMaintenance(p, outcome) ==
  /\ invocations < MaxInvocations
  /\ invocations' = invocations + 1
  /\ IF Busy("MaintenanceModeJSON")
     THEN Refuse("MaintenanceModeJSON") /\ UNCHANGED contentVars
     ELSE /\ \A c \in Components : \A run \in pending[c] : run.caller # p
          /\ SaveContent(p, "maintenance_mode", MaintenanceObject(~maintenance), outcome)
          /\ Begin("MaintenanceModeJSON", Run(invocations', p, "", ~maintenance))
          /\ UNCHANGED << abortControllerRef, maintenance >>

\* SettingsContext.jsx:128-144 and MaintenanceModeJSON.jsx:18-47: saveContent
\* has returned; the setting is taken over on success, an error is thrown
\* and shown otherwise
ToggleSettled(run) ==
  /\ run \in pending["MaintenanceModeJSON"]
  /\ call[run.caller].pc = "done"
  /\ call' = [call EXCEPT ![run.caller] = Idle]
  /\ maintenance' = IF call[run.caller].result.success THEN run.enabled ELSE maintenance
  /\ Finally("MaintenanceModeJSON", run,
             IF call[run.caller].result.success THEN "success" ELSE "error")
  /\ UNCHANGED << rows, nextId, clock, saved, concurrent, failures, calls >>

\* React renders the component with the state set after the await
Render(c) ==
  /\ rendered[c] # saving[c]
  /\ rendered' = [rendered EXCEPT ![c] = saving[c]]
  /\ invoked' = NoInvocation
  /\ UNCHANGED << saving, pending, message, abortControllerRef, maintenance, invocations >>

\* the components as mounted, nothing saved yet
SavingIdle ==
  /\ saving = [c \in Components |-> FALSE]
  /\ rendered = [c \in Components |-> FALSE]
  /\ pending = [c \in Components |-> {}]
  /\ message = [c \in Components |-> "none"]
  /\ abortControllerRef = 0
  /\ maintenance = FALSE
  /\ invocations = 0
  /\ invoked = NoInvocation

(***************************************************************************)
(* Spec: the App component driven through its handlers, with two images.   *)
(* Image 2 is decoded when it is handed over, as MainTool hands it over    *)
(* (MainTool.js:37-40); image 1 may be handed over before it is decoded.   *)
(***************************************************************************)
Opaque(v) == Pix(v, ChannelMax)
Translucent(v) == Pix(v, 128)

RowImage(s) == Bitmap(Len(s), 1, s)

AppImages ==
  [image \in ImageIds |->
     IF image = 1 THEN RowImage(<< Opaque(100), Opaque(200), Translucent(100) >>)
     ELSE Bitmap(2, 2, << Opaque(0), Opaque(200), Opaque(200), Opaque(200) >>)]

AppPixelSizes == {2, DefaultPixelSize}
AppLevels == {DefaultBrightness, 20}
AppShadows == {DefaultShadow, 1}

NoMemo == [set |-> FALSE, image |-> NoImage, params |-> NoOverrides, out |-> NoOutput,
           later |-> FALSE]

InitTool ==
  /\ onload = [image \in ImageIds |-> NoHandler]
  /\ uploadedImage = NoImage
  /\ pixelatedImage = NoOutput
  /\ pixelSize = DefaultPixelSize
  /\ brightness = DefaultBrightness
  /\ contrast = DefaultContrast
  /\ shadow = DefaultShadow
  /\ isGenerating = FALSE
  /\ log = NoLog
  /\ faults = 0
  /\ memo = NoMemo
  /\ link = NoOutput
  /\ loadFailed = {}

InitApp == InitTool /\ ContentIdle /\ TitleIdle /\ SavingIdle

Init ==
  /\ bitmap = AppImages
  /\ complete \in {[image \in ImageIds |-> image = 2 \/ d] : d \in BOOLEAN}
  /\ InitApp

Upload ==
  \E image \in ImageIds, throws \in BOOLEAN :
    HandleImageUpload(image, throws) /\ UNCHANGED << memo, elsewhere >>

PixelSizeChange ==
  \E n \in AppPixelSizes, throws \in BOOLEAN :
    HandlePixelSizeChange(n, throws) /\ UNCHANGED << memo, elsewhere >>

BrightnessChange ==
  \E n \in AppLevels, throws \in BOOLEAN :
    HandleBrightnessChange(n, throws) /\ UNCHANGED << memo, elsewhere >>

ContrastChange ==
  \E n \in AppLevels, throws \in BOOLEAN :
    HandleContrastChange(n, throws) /\ UNCHANGED << memo, elsewhere >>

ShadowChange ==
  \E n \in AppShadows, throws \in BOOLEAN :
    HandleShadowChange(n, throws) /\ UNCHANGED << memo, elsewhere >>

Decoded ==
  \E image \in ImageIds, throws \in BOOLEAN :
    ImageDecoded(image, throws) /\ UNCHANGED << memo, elsewhere >>

Next ==
  \/ Upload
  \/ PixelSizeChange
  \/ BrightnessChange
  \/ ContrastChange
  \/ ShadowChange
  \/ Decoded

Spec == Init /\ [][Next]_vars

(***************************************************************************)
(* SpecRender: the renderer on arbitrary small sources.  The image comes   *)
(* through MainTool (MainTool.js:31-45), which hands it to onImageUpload   *)
(* from its own img.onload, decoded; renders of these sources do not       *)
(* exhaust memory.                                                         *)
(***************************************************************************)
Tone1 == Opaque(100)
Tone2 == Opaque(200)

RECURSIVE Rows(_, _)
Rows(n, palette) ==
  IF n = 0 THEN {<< >>}
  ELSE {Append(s, c) : s \in Rows(n - 1, palette), c \in palette}

Checkerboard(n) ==
  Bitmap(n, n, [i \in 1 .. (n * n) |->
                  IF (((i - 1) % n) + ((i - 1) \div n)) % 2 = 0
                  THEN Opaque(0) ELSE Opaque(ChannelMax)])

Sources ==
  {RowImage(s) : s \in UNION {Rows(n, {Tone1, Tone2}) : n \in 1 .. MaxW}}
    \cup {RowImage(s) : s \in UNION {Rows(n, {Tone1, Translucent(100)}) : n \in 1 .. 2}}
    \cup {Bitmap(2, 2, s) : s \in Rows(4, {Tone1, Translucent(100)})}
    \cup {Bitmap(1, 3, s) : s \in Rows(3, {Tone1, Tone2})}
    \cup {Checkerboard(n) : n \in 1 .. MaxBoard}

RenderPixelSizes == (0 .. MaxPixelSize) \cup {DefaultPixelSize, SliderMaxPixelSize}
RenderLevels == {DefaultBrightness, 20}
RenderShadows == {DefaultShadow, 1}

InitRender ==
  /\ bitmap \in {[image \in ImageIds |-> s] : s \in Sources}
  /\ complete = [image \in ImageIds |-> TRUE]
  /\ InitApp

RenderUpload == HandleImageUpload(1, FALSE)
RenderPixelSize == \E n \in RenderPixelSizes : HandlePixelSizeChange(n, FALSE)
RenderBrightness == \E n \in RenderLevels : HandleBrightnessChange(n, FALSE)
RenderContrast == \E n \in RenderLevels : HandleContrastChange(n, FALSE)
RenderShadow == \E n \in RenderShadows : HandleShadowChange(n, FALSE)

RenderStep ==
  \/ RenderUpload
  \/ RenderPixelSize
  \/ RenderBrightness
  \/ RenderContrast
  \/ RenderShadow

NextRender == RenderStep /\ UNCHANGED << memo, elsewhere >>

SpecRender == InitRender /\ [][NextRender]_vars

(***************************************************************************)
(* SpecRepeat: the same calls on a few sources, with memo keeping one      *)
(* earlier completed render to compare later renders with.                 *)
(***************************************************************************)
RepeatSources ==
  { RowImage(<< Tone1, Translucent(100) >>),
    RowImage(<< Tone1, Tone2, Tone1 >>),
    Checkerboard(2) }

InitRepeat ==
  /\ bitmap \in {[image \in ImageIds |-> s] : s \in RepeatSources}
  /\ complete = [image \in ImageIds |-> TRUE]
  /\ InitApp

\* memo takes the render this step completed, once; memo.later tells that a
\* render with other parameters completed after it
Remember ==
  IF log'.kind = "rendered"
  THEN \/ /\ ~memo.set
          /\ memo' = [set |-> TRUE, image |-> log'.image, params |-> log'.params,
                      out |-> pixelatedImage', later |-> FALSE]
       \/ memo' = IF memo.set /\ log'.params # memo.params
                  THEN [memo EXCEPT !.later = TRUE] ELSE memo
  ELSE UNCHANGED memo

NextRepeat == RenderStep /\ Remember /\ UNCHANGED elsewhere

SpecRepeat == InitRepeat /\ [][NextRepeat]_vars

(***************************************************************************)
(* SpecDomain: the four parameter handlers called with the values at the   *)
(* ends of the range inputs of MainTool.js:227-297 and with values one     *)
(* step outside them, on the decoded image 2.                              *)
(***************************************************************************)
SliderMinPixelSize == 0
SliderMinLevel == 5
SliderMaxLevel == 20
SliderMinShadow == 0
SliderMaxShadow == 30

DomainPixelSizes == {SliderMinPixelSize, SliderMaxPixelSize, SliderMaxPixelSize + 1}
DomainLevels == {SliderMinLevel, SliderMaxLevel, SliderMaxLevel + 1}
DomainShadows == {SliderMaxShadow, SliderMaxShadow + 1}

InitDomain ==
  /\ bitmap = AppImages
  /\ complete = [image \in ImageIds |-> TRUE]
  /\ InitApp

DomainUpload ==
  HandleImageUpload(2, FALSE) /\ UNCHANGED << memo, elsewhere >>

DomainPixelSize ==
  \E n \in DomainPixelSizes :
    HandlePixelSizeChange(n, FALSE) /\ UNCHANGED << memo, elsewhere >>

DomainBrightness ==
  \E n \in DomainLevels :
    HandleBrightnessChange(n, FALSE) /\ UNCHANGED << memo, elsewhere >>

DomainContrast ==
  \E n \in DomainLevels :
    HandleContrastChange(n, FALSE) /\ UNCHANGED << memo, elsewhere >>

DomainShadow ==
  \E n \in DomainShadows :
    HandleShadowChange(n, FALSE) /\ UNCHANGED << memo, elsewhere >>

NextDomain ==
  \/ DomainUpload
  \/ DomainPixelSize
  \/ DomainBrightness
  \/ DomainContrast
  \/ DomainShadow

SpecDomain == InitDomain /\ [][NextDomain]_vars

(***************************************************************************)
(* SpecDownload: upload, pixel size changes, decoding and the download     *)
(* button (MainTool.js:306-309), which is enabled whenever an output is    *)
(* held.  memo keeps the latest completed render.                          *)
(***************************************************************************)
\* downloadPixelatedImage, App.js:179-188: writes nothing to the console
DownloadPixelatedImage ==
  /\ link' = IF pixelatedImage # NoOutput THEN pixelatedImage ELSE link
  /\ log' = NoLog
  /\ UNCHANGED << bitmap, complete, onload, uploadedImage, pixelatedImage, pixelSize,
                  brightness, contrast, shadow, isGenerating, faults >>

RememberLatest ==
  memo' = IF log'.kind = "rendered"
          THEN [set |-> TRUE, image |-> log'.image, params |-> log'.params,
                out |-> pixelatedImage', later |-> FALSE]
          ELSE memo

DownloadUpload ==
  \E image \in ImageIds, throws \in BOOLEAN :
    HandleImageUpload(image, throws) /\ RememberLatest /\ UNCHANGED elsewhere

DownloadPixelSize ==
  \E n \in AppPixelSizes, throws \in BOOLEAN :
    HandlePixelSizeChange(n, throws) /\ RememberLatest /\ UNCHANGED elsewhere

DownloadDecoded ==
  \E image \in ImageIds, throws \in BOOLEAN :
    ImageDecoded(image, throws) /\ RememberLatest /\ UNCHANGED elsewhere

Download ==
  DownloadPixelatedImage /\ RememberLatest /\ UNCHANGED << loadFailed, contentVars, adminVars >>

NextDownload ==
  \/ DownloadUpload
  \/ DownloadPixelSize
  \/ DownloadDecoded
  \/ Download

SpecDownload == Init /\ [][NextDownload]_vars

(***************************************************************************)
(* SpecContent: two callers of the content service (the admin panel and    *)
(* the site, SettingsContext.jsx:32-34, FooterSimple.jsx:31), on a table   *)
(* that holds no row, one row or two rows of the slug they work on.        *)
(***************************************************************************)
SavedContents == {Text("A"), Object("links")}

\* the slug the callers work on; the table also holds a row of another slug
CalledSlugs == {"website_title"}
OtherRow == Row(1, "footer_links", "{links}", 0)

InitialTables ==
  { {OtherRow},
    {OtherRow, Row(2, "website_title", "old", 1)},
    {OtherRow, Row(2, "website_title", "older", 0), Row(3, "website_title", "old", 1)} }

InitContent ==
  /\ bitmap = AppImages
  /\ complete = [image \in ImageIds |-> TRUE]
  /\ InitTool
  /\ rows \in InitialTables
  /\ nextId = Cardinality(rows) + 1
  /\ clock = 2
  /\ call = [p \in Callers |-> Idle]
  /\ saved = [slug \in Slugs |-> NoSaved]
  /\ concurrent = FALSE
  /\ failures = 0
  /\ calls = 0
  /\ TitleIdle
  /\ SavingIdle

ContentSave ==
  \E p \in Callers, slug \in CalledSlugs, content \in SavedContents, outcome \in Outcomes :
    SaveContent(p, slug, content, outcome) /\ UNCHANGED << toolVars, adminVars >>

ContentSaveInsert ==
  \E p \in Callers, outcome \in Outcomes : SaveInsert(p, outcome) /\ UNCHANGED << toolVars, adminVars >>

ContentSaveUpdate ==
  \E p \in Callers, outcome \in Outcomes : SaveUpdate(p, outcome) /\ UNCHANGED << toolVars, adminVars >>

ContentSaveCleanup ==
  \E p \in Callers, outcome \in Outcomes : SaveCleanup(p, outcome) /\ UNCHANGED << toolVars, adminVars >>

ContentLoad ==
  \E p \in Callers, slug \in CalledSlugs, parse \in BOOLEAN, outcome \in Outcomes :
    LoadContent(p, slug, parse, outcome) /\ UNCHANGED << toolVars, adminVars >>

ContentDefaultCount ==
  \E p \in Callers, outcome \in Outcomes : CreateDefaultRow(p, outcome) /\ UNCHANGED << toolVars, adminVars >>

ContentDefaultInsert ==
  \E p \in Callers, outcome \in Outcomes : DefaultInsert(p, outcome) /\ UNCHANGED << toolVars, adminVars >>

NextContent ==
  \/ ContentSave
  \/ ContentSaveInsert
  \/ ContentSaveUpdate
  \/ ContentSaveCleanup
  \/ ContentLoad
  \/ ContentDefaultCount
  \/ ContentDefaultInsert

SpecContent == InitContent /\ [][NextContent]_vars

(***************************************************************************)
(* SpecTitle: two components that use the title manager mount and unmount, *)
(* cleanupTitleManager is called, and Firestore delivers snapshots and     *)
(* errors to the listeners it holds.                                       *)
(***************************************************************************)
besidesTitle == << toolVars, contentVars, savingVars >>

InitTitle ==
  /\ bitmap = AppImages
  /\ complete = [image \in ImageIds |-> TRUE]
  /\ InitApp

TitleMount ==
  \E i \in Instances, outcome \in SetupOutcomes : Mount(i, outcome) /\ UNCHANGED besidesTitle

TitleUnmount == \E i \in Instances : Unmount(i) /\ UNCHANGED besidesTitle

TitleCleanup == CleanupTitleManager /\ UNCHANGED besidesTitle

TitleSnapshot ==
  \E l \in listening, snapshot \in Documents : Snapshot(l, snapshot) /\ UNCHANGED besidesTitle

TitleSnapshotError ==
  \E l \in listening, aborted \in BOOLEAN : SnapshotError(l, aborted) /\ UNCHANGED besidesTitle

TitleEvent ==
  \E websiteTitle \in Titles \cup {""} :
    HandleTitleChange(websiteTitle) /\ UNCHANGED besidesTitle

NextTitle ==
  \/ TitleMount
  \/ TitleUnmount
  \/ TitleCleanup
  \/ TitleSnapshot
  \/ TitleSnapshotError
  \/ TitleEvent

SpecTitle == InitTitle /\ [][NextTitle]_vars

(***************************************************************************)
(* SpecSaving: the two management components are used while the header    *)
(* and the footer mount and unmount; the table holds no row, one row or    *)
(* two rows of the slug maintenance_mode.                                  *)
(***************************************************************************)
SavingTables ==
  { {OtherRow},
    {OtherRow, Row(2, "maintenance_mode", "{enabled:false}", 1)},
    {OtherRow, Row(2, "maintenance_mode", "{enabled:true}", 0),
               Row(3, "maintenance_mode", "{enabled:false}", 1)} }

InitSaving ==
  /\ bitmap = AppImages
  /\ complete = [image \in ImageIds |-> TRUE]
  /\ InitTool
  /\ rows \in SavingTables
  /\ nextId = Cardinality(rows) + 1
  /\ clock = 2
  /\ call = [p \in Callers |-> Idle]
  /\ saved = [slug \in Slugs |-> NoSaved]
  /\ concurrent = FALSE
  /\ failures = 0
  /\ calls = 0
  /\ TitleIdle
  /\ SavingIdle

\* the component that shows the title while the admin saves, and the titles
\* typed: a title, or none
SavingInstances == {1}
SavingTitles == {"Pixel Studio", ""}

SavingSave ==
  \E websiteTitle \in SavingTitles :
    HandleSave(websiteTitle) /\ UNCHANGED << toolVars, contentVars, titleVars >>

SavingSaveSettled ==
  \E run \in pending["TitleManagement"], outcome \in SaveOutcomes :
    SaveSettled(run, outcome) /\ UNCHANGED << toolVars, contentVars >>

SavingToggle ==
  \E p \in Callers, outcome \in Outcomes :
    HandleToggleMaintenance(p, outcome) /\ UNCHANGED << toolVars, titleVars >>

SavingInsert ==
  \E p \in Callers, outcome \in Outcomes : SaveInsert(p, outcome) /\ UNCHANGED << toolVars, adminVars >>

SavingUpdate ==
  \E p \in Callers, outcome \in Outcomes : SaveUpdate(p, outcome) /\ UNCHANGED << toolVars, adminVars >>

SavingCleanup ==
  \E p \in Callers, outcome \in Outcomes : SaveCleanup(p, outcome) /\ UNCHANGED << toolVars, adminVars >>

SavingToggleSettled ==
  \E run \in pending["MaintenanceModeJSON"] :
    ToggleSettled(run) /\ UNCHANGED << toolVars, titleVars >>

SavingRender ==
  \E c \in Components : Render(c) /\ UNCHANGED << toolVars, contentVars, titleVars >>

SavingMount ==
  \E i \in SavingInstances : Mount(i, "ok") /\ UNCHANGED besidesTitle

SavingUnmount == \E i \in SavingInstances : Unmount(i) /\ UNCHANGED besidesTitle

NextSaving ==
  \/ SavingSave
  \/ SavingSaveSettled
  \/ SavingToggle
  \/ SavingInsert
  \/ SavingUpdate
  \/ SavingCleanup
  \/ SavingToggleSettled
  \/ SavingRender
  \/ SavingMount
  \/ SavingUnmount

SpecSaving == InitSaving /\ [][NextSaving]_vars

(***************************************************************************)
(* SpecLive: the App component as in Spec, with the load of an image that  *)
(* is not decoded yet ending one way or the other: the browser fires the   *)
(* load event or the error event of every image it loads.  The user is     *)
(* under no obligation to do anything.  A load is pending exactly while    *)
(* LiveFailed is enabled, and either ending disables it, so weak fairness  *)
(* of LiveFailed says that no load stays pending for ever.                 *)
(***************************************************************************)
LiveFailed ==
  \E image \in ImageIds :
    ImageFailed(image) /\ UNCHANGED << memo, link, contentVars, adminVars >>

NextLive ==
  \/ Upload
  \/ PixelSizeChange
  \/ BrightnessChange
  \/ ContrastChange
  \/ ShadowChange
  \/ Decoded
  \/ LiveFailed

SpecLive == Init /\ [][NextLive]_vars /\ WF_vars(LiveFailed)

(***************************************************************************)
(* Helpers of the claims.                                                  *)
(***************************************************************************)
Rendered == log.kind = "rendered"
Shown == pixelatedImage
SourceOfLog == bitmap[log.image]
Colours(px) == {px[i] : i \in 1 .. Len(px)}
IsOpaque(bm) == \A i \in Cells(bm) : bm.px[i].a = ChannelMax
IsUniform(bm) == \A i \in Cells(bm) : bm.px[i] = bm.px[1]
IdentityFilters(p) ==
  p.brightness = DefaultBrightness /\ p.contrast = DefaultContrast /\ p.shadow = 0
CeilDiv(n, d) == (n + d - 1) \div d

C3_FullRecomputeFromSource ==
  [][ (uploadedImage # NoImage /\ CurrentParams' # CurrentParams)
        => /\ log'.image = uploadedImage
           /\ log'.params = CurrentParams'
           /\ complete[uploadedImage] => log'.kind \in {"rendered", "threw"}
           /\ ~complete[uploadedImage]
                => /\ log'.kind = "deferred"
                   /\ onload'[uploadedImage].set
                   /\ Resolve(onload'[uploadedImage].overrides,
                              onload'[uploadedImage].scope) = CurrentParams'
           /\ log'.kind = "rendered"
                => pixelatedImage' =
                     ToDataURL(RenderBitmap(bitmap[uploadedImage], CurrentParams'))
           /\ log'.kind # "rendered" => pixelatedImage' = pixelatedImage ]_vars

\* a parameter change on the decoded image 1 has replaced an earlier render
C3_Witness ==
  /\ Rendered /\ log.image = 1 /\ uploadedImage = 1
  /\ pixelSize = 2 /\ brightness = 20 /\ shadow = 1
  /\ Shown = ToDataURL(RenderBitmap(bitmap[1], CurrentParams))

(***************************************************************************)
(* C4: the output of every render has the width and height of the image it *)
(* rendered, and one pixel per position.                                   *)
(***************************************************************************)
C4_DimensionPreservation ==
  Rendered => /\ Shown.kind = "png"
              /\ Shown.w = SourceOfLog.w
              /\ Shown.h = SourceOfLog.h
              /\ Len(Shown.px) = SourceOfLog.w * SourceOfLog.h

\* a 5 x 1 image rendered with a pixel size that does not divide its width
C4_Witness ==
  /\ Rendered /\ SourceOfLog.w = 5 /\ SourceOfLog.h = 1
  /\ log.params.pixelSize = 2 /\ Shown.w = 5 /\ Shown.h = 1

C6_PassThroughIdentity ==
  (Rendered /\ log.params.pixelSize = 0 /\ IdentityFilters(log.params))
    => Shown.px = SourceOfLog.px

(***************************************************************************)
(* C7: with pixelSize > 0 every output pixel is the filtered value of one  *)
(* source pixel, never a mix of several (the shadow taken at radius 0, or  *)
(* the source opaque); the 4 x 4 checkerboard at pixelSize 4 with identity *)
(* filters comes out in one colour, black or white.                        *)
(***************************************************************************)
PointFiltered(p, b, c) ==
  LET q == ColourFilter(p, b, c)
  IN  Over(q, Pix(0, Round(ShadowOpacity * q.a, 10)))

C8_ContrastThenBrightness ==
  (Rendered /\ IsOpaque(SourceOfLog))
    => /\ \A i \in 1 .. Len(Shown.px) :
            \E j \in Cells(SourceOfLog) :
              Shown.px[i].v = BrightnessOf(ContrastOf(SourceOfLog.px[j].v, log.params.contrast),
                                           log.params.brightness)
       /\ log.params.pixelSize <= 1
            => \A i \in Cells(SourceOfLog) :
                 Shown.px[i].v = BrightnessOf(ContrastOf(SourceOfLog.px[i].v, log.params.contrast),
                                              log.params.brightness)

(***************************************************************************)
(* C8 amended: brightness first, contrast (about mid-gray) second; on an   *)
(* opaque source every output value is the brightness-then-contrast value  *)
(* of a source value, position by position when every pixel is its own     *)
(* block.                                                                  *)
(***************************************************************************)
C8_BrightnessThenContrast ==
  (Rendered /\ IsOpaque(SourceOfLog))
    => /\ \A i \in 1 .. Len(Shown.px) :
            \E j \in Cells(SourceOfLog) :
              Shown.px[i] = Pix(ContrastOf(BrightnessOf(SourceOfLog.px[j].v, log.params.brightness),
                                           log.params.contrast), ChannelMax)
       /\ log.params.pixelSize <= 1
            => \A i \in Cells(SourceOfLog) :
                 Shown.px[i] = Pix(ContrastOf(BrightnessOf(SourceOfLog.px[i].v, log.params.brightness),
                                              log.params.contrast), ChannelMax)

\* brightness 2 and contrast 2 on a two-tone row, where the two orders differ
C8_Witness ==
  /\ Rendered /\ SourceOfLog = RowImage(<< Tone1, Tone2 >>)
  /\ log.params = Params(0, 20, 20, 0)
  /\ Shown.px[1].v = ContrastOf(BrightnessOf(100, 20), 20)
  /\ Shown.px[1].v # BrightnessOf(ContrastOf(100, 20), 20)

(***************************************************************************)
(* C9 as claimed: with brightness, contrast and shadow unchanged, a render *)
(* at a larger pixelSize shows no more distinct colours than the render at *)
(* the smaller one before it, over the whole of an image wider than one    *)
(* block.                                                                  *)
(***************************************************************************)
C9_MonotonicBlockiness ==
  [][ ( /\ log.kind = "rendered" /\ log'.kind = "rendered"
        /\ log'.image = log.image
        /\ log'.params.brightness = log.params.brightness
        /\ log'.params.contrast = log.params.contrast
        /\ log'.params.shadow = log.params.shadow
        /\ 0 < log.params.pixelSize
        /\ log.params.pixelSize < log'.params.pixelSize
        /\ log'.params.pixelSize < bitmap[log.image].w )
        => Cardinality(Colours(pixelatedImage'.px)) <= Cardinality(Colours(pixelatedImage.px)) ]_vars

(***************************************************************************)
(* C9 amended: the number of blocks ceil(W/p) * ceil(H/p) never grows with *)
(* pixelSize, and with shadow 0 or an opaque source a render at pixelSize  *)
(* p > 0 shows at most that many distinct colours.                         *)
(***************************************************************************)
Blocks(bm, ps) == CeilDiv(bm.w, ps) * CeilDiv(bm.h, ps)

C9_BlockCountBound ==
  (Rendered /\ log.params.pixelSize > 0)
    => /\ \A q \in RenderPixelSizes :
            q > log.params.pixelSize
              => Blocks(SourceOfLog, q) <= Blocks(SourceOfLog, log.params.pixelSize)
       /\ (log.params.shadow = 0 \/ IsOpaque(SourceOfLog))
            => Cardinality(Colours(Shown.px)) <= Blocks(SourceOfLog, log.params.pixelSize)

\* the row A A A B A at pixelSize 3 shows two colours; at pixelSize 2 it shows one
C9_Witness ==
  /\ Rendered /\ SourceOfLog = RowImage(<< Tone1, Tone1, Tone1, Tone2, Tone1 >>)
  /\ log.params.pixelSize = 3
  /\ Cardinality(Colours(Shown.px)) = 2
  /\ Cardinality(Colours(RenderBitmap(SourceOfLog, [log.params EXCEPT !.pixelSize = 2]).px)) = 1

(***************************************************************************)
(* C10: a source of one single colour, rendered with brightness 1,         *)
(* contrast 1 and shadow 0 at any pixelSize, comes out pixel for pixel as  *)
(* it went in.                                                             *)
(***************************************************************************)
C10_UniformInvariant ==
  (Rendered /\ IdentityFilters(log.params) /\ IsUniform(SourceOfLog))
    => Shown.px = SourceOfLog.px

(***************************************************************************)
(* C11: a call of generatePixelatedImage made by a handler leaves the      *)
(* image it was given as it was: its pixels and size, and its other        *)
(* properties, here the onload handler, both when the image is decoded and *)
(* when it is not.                                                         *)
(***************************************************************************)
C11_SourceUnchanged ==
  [][ (log'.kind # "none" /\ complete' = complete)
        => /\ bitmap'[log'.image] = bitmap[log'.image]
           /\ onload'[log'.image] = onload[log'.image] ]_vars

(***************************************************************************)
(* C12: a render that fails ends by throwing to the handler that called    *)
(* it, and no retry of it is left behind.                                  *)
(***************************************************************************)
C12_FailurePropagated ==
  log.kind = "threw" => (log.thrown /\ ~onload[log.image].set)

InDomain(p) ==
  /\ p.pixelSize \in SliderMinPixelSize .. SliderMaxPixelSize
  /\ p.brightness \in SliderMinLevel .. SliderMaxLevel
  /\ p.contrast \in SliderMinLevel .. SliderMaxLevel
  /\ p.shadow \in SliderMinShadow .. SliderMaxShadow

C14_DownloadSavesLatestRender ==
  [][ /\ link' # link => (memo.set /\ link' = memo.out)
      /\ (pixelatedImage = NoOutput /\ pixelatedImage' = NoOutput) => link' = link ]_vars

Completes(p, fn) ==
  /\ call[p].pc # "done" /\ call'[p].pc = "done" /\ call'[p].fn = fn
  /\ ~concurrent'

C16_SaveLoadRoundTrip ==
  [][ \A p \in Callers :
        /\ (Completes(p, "saveContent") /\ call'[p].result.success)
             => LET slug == call'[p].slug
                IN  IF RowsOf(slug) = {}
                    THEN /\ call'[p].result.action = "inserted"
                         /\ \E r \in rows' :
                              /\ {q \in rows' : q.slug = slug} = {r}
                              /\ r.content = call'[p].content
                    ELSE call'[p].result.action = "updated"
        /\ (Completes(p, "loadContent") /\ saved[call'[p].slug].set
              /\ ~InFlight(p) /\ failures' = failures)
             => LET s == saved[call'[p].slug].content
                IN  /\ ~call'[p].parse => call'[p].result.value = Text(s)
                    /\ (call'[p].parse /\ IsJson(s)) => call'[p].result.value = JsonParse(s) ]_vars

(***************************************************************************)
(* C17: with the calls made one after the other, a saveContent that        *)
(* succeeds after it found several rows of the slug leaves exactly one row *)
(* of the slug: a row that was the most recent one, holding the content    *)
(* saved.                                                                  *)
(***************************************************************************)
C17_DuplicatesCleaned ==
  [][ \A p \in Callers :
        (/\ Completes(p, "saveContent") /\ call'[p].result.success
         /\ Len(call'[p].existing) > 1)
          => \E r \in rows' :
               /\ {q \in rows' : q.slug = call'[p].slug} = {r}
               /\ r.id \in call'[p].newest
               /\ r.content = call'[p].content ]_vars

(***************************************************************************)
(* C18: Firestore holds at most one onSnapshot listener of the title at    *)
(* any time; a snapshot it delivers sets the title of every mounted hook   *)
(* instance; and the title of an instance that is not mounted never        *)
(* changes.                                                                *)
(***************************************************************************)
C18_SingleListener ==
  [][ /\ Cardinality(listening') <= 1
      /\ notice'.kind = "snapshot"
           => \A i \in Instances : isMounted[i] => title'[i] = notice'.title
      /\ \A i \in Instances : (~isMounted[i] /\ ~isMounted'[i]) => title'[i] = title[i] ]_vars

(***************************************************************************)
(* C19: a management component never has more than one handler run waiting *)
(* for its request; while one waits, an invocation of its handler adds     *)
(* none; and when a run's request completes, with success, failure or an   *)
(* abort, the component's saving flag is false.                            *)
(***************************************************************************)
C19_OneSaveInFlight ==
  [][ \A c \in Components :
        /\ Cardinality(pending'[c]) <= 1
        /\ pending[c] # {} => pending'[c] \subseteq pending[c]
        /\ pending[c] \ pending'[c] # {} => ~saving'[c] ]_vars

\* a toggle invoked while the component's save is in flight was refused; a
\* request to Supabase has failed by then
C19_Witness ==
  /\ invoked = Invocation("MaintenanceModeJSON", FALSE)
  /\ pending["MaintenanceModeJSON"] # {}
  /\ failures > 0

(***************************************************************************)
(* C21: with pixelSize > 0 the output is laid out in blocks of pixelSize   *)
(* by pixelSize pixels counted from the top left corner, the last block of *)
(* a row or column cropped at the edge: the output pixel at (x, y) has the *)
(* filtered colour of the cell (x div pixelSize, y div pixelSize) of the   *)
(* reduced surface (the shadow taken at radius 0, or the source opaque).   *)
(***************************************************************************)
C21_BlockEdgeIsPixelSize ==
  (Rendered /\ log.params.pixelSize > 0 /\ (log.params.shadow = 0 \/ IsOpaque(SourceOfLog)))
    => LET ps   == log.params.pixelSize
           cell == Scale(SourceOfLog, CeilDiv(SourceOfLog.w, ps), CeilDiv(SourceOfLog.h, ps),
                         FALSE)
       IN  \A i \in Cells(SourceOfLog) :
             Shown.px[i] = PointFiltered(At(cell, XOf(SourceOfLog, i) \div ps,
                                            YOf(SourceOfLog, i) \div ps),
                                         log.params.brightness, log.params.contrast)

(***************************************************************************)
(* C22: the output of a render is the unfiltered pixelation of the source  *)
(* (the source itself at pixelSize <= 0) with the brightness / contrast /  *)
(* drop-shadow filter applied to it once, as a whole: the reduced surface  *)
(* is drawn without a filter.                                              *)
(***************************************************************************)
C22_FilterOnceOnFinalDraw ==
  Rendered
    => LET ps    == log.params.pixelSize
           src   == SourceOfLog
           plain == IF ps <= 0 THEN src
                    ELSE Scale(Scale(src, CeilDiv(src.w, ps), CeilDiv(src.h, ps), FALSE),
                               src.w, src.h, FALSE)
           once  == ApplyFilter(plain, log.params.brightness, log.params.contrast,
                                log.params.shadow)
       IN  \A i \in Cells(src) : Shown.px[i] = Over(once.px[i], Transparent)

\* a two-tone row rendered in blocks with brightness 2 and a shadow, after the
\* brightness had been set: the pixel of value 100 comes out as 200
C22_Witness ==
  /\ Rendered /\ log.params.pixelSize = 2 /\ log.params.brightness = 20
  /\ log.params.shadow = 1 /\ brightness = 20
  /\ SourceOfLog.w = 4 /\ SourceOfLog.px[1].v = 100 /\ Shown.px[1].v = 200
  /\ Cardinality(Colours(SourceOfLog.px)) = 2

(***************************************************************************)
(* C23: when no request has failed, the insert of createDefaultRow adds a  *)
(* default row only to a table that holds no row of the slug, whatever     *)
(* other calls are in flight, and so leaves one row of the slug.           *)
(***************************************************************************)
C23_DefaultRowOnlyWhenMissing ==
  [][ \A p \in Callers :
        (call[p].pc = "default_insert" /\ rows' # rows /\ failures' = 0)
          => /\ RowsOf(call[p].slug) = {}
             /\ Cardinality({r \in rows' : r.slug = call[p].slug}) = 1 ]_vars

(***************************************************************************)
(* C24: a loadContent whose query came back with an error inserts no       *)
(* default row: with the calls made one after the other, a loadContent     *)
(* that inserts a row had its query answered without an error, by a table  *)
(* that held no row of the slug.                                           *)
(***************************************************************************)
C24_NoDefaultRowAfterError ==
  [][ \A p \in Callers :
        (call[p].pc = "default_insert" /\ rows' # rows /\ ~concurrent')
          => (call[p].queried /\ RowsOf(call[p].slug) = {}) ]_vars

C26_GeneratingEndsEventually ==
  /\ [](isGenerating => \E image \in ImageIds : onload[image].set /\ ~complete[image])
  /\ [][log'.kind \in {"rendered", "threw"} => ~isGenerating']_vars
  /\ (isGenerating ~> ~isGenerating)

(***************************************************************************)
(* C27: a call of generatePixelatedImage that throws changes nothing but   *)
(* isGenerating, which it leaves false.  The output, the uploaded image    *)
(* and the four parameters are what they were when the call was made: in   *)
(* the onload handler the state as it was, in a handler of App the state   *)
(* with what the handler had set before its call (the new parameter, or    *)
(* the uploaded image and its own src as the output).                      *)
(***************************************************************************)
C27_ThrowLeavesState ==
  [][ faults' # faults
        => /\ log'.kind = "threw"
           /\ ~isGenerating'
           /\ bitmap' = bitmap
           /\ IF complete' # complete
              THEN /\ pixelatedImage' = pixelatedImage
                   /\ uploadedImage' = uploadedImage
                   /\ CurrentParams' = CurrentParams
              ELSE /\ uploadedImage' = log'.image
                   /\ CurrentParams' = log'.params
                   /\ pixelatedImage' \in {pixelatedImage, ImageSrc(uploadedImage')}
                   /\ uploadedImage' # uploadedImage
                        => pixelatedImage' = ImageSrc(uploadedImage')
                   /\ CurrentParams' # CurrentParams
                        => /\ pixelatedImage' = pixelatedImage
                           /\ uploadedImage' = uploadedImage ]_vars

\* a parameter change on image 1 threw and the render made before it is still
\* shown, with the new parameter in the state
C27_Witness ==
  /\ log.kind = "threw" /\ log.image = 1 /\ uploadedImage = 1
  /\ faults = 1 /\ ~isGenerating
  /\ pixelSize = 2 /\ log.params = CurrentParams
  /\ pixelatedImage.kind = "png"
  /\ pixelatedImage # ToDataURL(RenderBitmap(bitmap[1], CurrentParams))

====
